---------------------------- MODULE Spec2Model ----------------------------
(***************************************************************************)
(* A model of Doxybook2's Generator (src/src/Doxybook/Generator.cpp) and   *)
(* of Utils::wikiSafeFileName (src/src/Doxybook/Utils.cpp).                *)
(*                                                                         *)
(* A std::string is a sequence of one-character strings.  Only 7-bit       *)
(* characters are drawn as inputs: std::isalnum on a negative char is      *)
(* undefined, and no input of the model reaches it.                        *)
(***************************************************************************)
EXTENDS Integers, Sequences, FiniteSets, TLC

VARIABLES
    doxygen,            \* the node tree (Doxygen::getIndex, Doxygen::find)
    config,             \* the Config the Generator reads
    refidToWikiName,    \* Generator::refidToWikiName
    g_refidToFilename,  \* the global refid -> filename mapping
    phase,              \* "new" before the constructor, "ready" for a call
                        \* of an operation, "called" when one has run
    call                \* the last operation called: its arguments and result

vars == <<doxygen, config, refidToWikiName, g_refidToFilename, phase, call>>

----------------------------------------------------------------------------
(* Bounds of the model                                                     *)

\* longest freely enumerated input of wikiSafeFileName
MaxStrLen == 3

\* number of nodes of a tree
MaxNodes == 3

----------------------------------------------------------------------------
(* std::string helpers                                                     *)

\* std::string(n, c)
Rep(c, n) == [i \in 1..n |-> c]

\* str.substr(pos) for pos <= size (1-based sequences, 0-based pos)
SubstrFrom(s, pos) == SubSeq(s, pos + 1, Len(s))

\* str.substr(0, n)
SubstrTo(s, n) == SubSeq(s, 1, IF n < Len(s) THEN n ELSE Len(s))

\* the strings of length at most n over the alphabet A
StringsUpTo(A, n) == UNION {[1..k -> A] : k \in 0..n}

Lower == {"a","b","c","d","e","f","g","h","i","j","k","l","m",
          "n","o","p","q","r","s","t","u","v","w","x","y","z"}
Upper == {"A","B","C","D","E","F","G","H","I","J","K","L","M",
          "N","O","P","Q","R","S","T","U","V","W","X","Y","Z"}
Digits == {"0","1","2","3","4","5","6","7","8","9"}

\* std::isalnum in the "C" locale
isalnum(c) == c \in Lower \cup Upper \cup Digits

RECURSIVE replaceAll(_, _, _)
\* replaceAll(str, from, to) for a one-character from: every occurrence, left
\* to right (the string is split in halves to keep the recursion shallow)
replaceAll(str, from, to) ==
    IF str = <<>> THEN <<>>
    ELSE IF Len(str) = 1 THEN (IF str[1] = from THEN to ELSE str)
    ELSE LET h == Len(str) \div 2
         IN  replaceAll(SubSeq(str, 1, h), from, to)
             \o replaceAll(SubSeq(str, h + 1, Len(str)), from, to)

----------------------------------------------------------------------------
(* Utils::wikiSafeFileName                                                 *)

\* the length the file name is cut to
MaxFileNameLen == 200

\* what one character of the input contributes to result
wikiSafeChar(c) ==
    IF isalnum(c) \/ c = "_" \/ c = "." \/ c = "+" THEN <<c>>
    ELSE IF c = "-" THEN <<c>>
    ELSE IF c = ":" THEN <<"%","3","A">>
    ELSE IF c = "<" THEN <<"%","3","C">>
    ELSE IF c = ">" THEN <<"%","3","E">>
    ELSE IF c = "*" THEN <<"%","2","A">>
    ELSE IF c = "?" THEN <<"%","3","F">>
    ELSE IF c = "|" THEN <<"%","7","C">>
    ELSE IF c = "\"" THEN <<"%","2","2">>
    ELSE <<>>

RECURSIVE wikiSafeScan(_)
\* the character loop: the contributions of the characters, in order (the
\* string is split in halves to keep the recursion shallow)
wikiSafeScan(str) ==
    IF str = <<>> THEN <<>>
    ELSE IF Len(str) = 1 THEN wikiSafeChar(str[1])
    ELSE LET h == Len(str) \div 2
         IN  wikiSafeScan(SubSeq(str, 1, h))
             \o wikiSafeScan(SubSeq(str, h + 1, Len(str)))

\* "Remove periods at start and end": one at the start, then one at the end
stripPeriods(result) ==
    LET r1 == IF result # <<>> /\ result[1] = "." THEN SubstrFrom(result, 1)
              ELSE result
    IN  IF r1 # <<>> /\ r1[Len(r1)] = "." THEN SubstrTo(r1, Len(r1) - 1)
        ELSE r1

\* the cut to MaxFileNameLen characters
truncateName(result) ==
    IF Len(result) > MaxFileNameLen THEN SubstrTo(result, MaxFileNameLen)
    ELSE result

wikiSafeFileName(str) ==
    truncateName(stripPeriods(wikiSafeScan(replaceAll(str, " ", <<"-">>))))

\* no operation called yet
Idle == [op |-> "none"]
----------------------------------------------------------------------------
(* The node tree.  doxygen is a sequence of nodes; a node's place in it is  *)
(* its id and parent is the id of its parent, 0 for the index root.  The    *)
(* children of a node are the nodes naming it as parent, in id order.       *)

\* std::to_string of a positive int
DigitChar(d) == <<"0","1","2","3","4","5","6","7","8","9">>[d + 1]

RECURSIVE to_string(_)
to_string(n) ==
    IF n < 10 THEN <<DigitChar(n)>>
    ELSE to_string(n \div 10) \o <<DigitChar(n % 10)>>

\* the refid the analyzer gave node id: unique, never empty
Refid(id) == <<"n">> \o to_string(id)

NodeIds == 1..Len(doxygen)

\* Node::getChildren, as ids
getChildren(p) ==
    SelectSeq([i \in 1..Len(doxygen) |-> i], LAMBDA n : doxygen[n].parent = p)

\* Doxygen::find: the node of the tree with this refid, 0 when there is none
find(refid) ==
    IF \E n \in NodeIds : doxygen[n].refid = refid
    THEN CHOOSE n \in NodeIds : doxygen[n].refid = refid
    ELSE 0

\* Node::isFileOrDir
isFileOrDir(node) == node.kind \in {"FILE", "DIR"}

----------------------------------------------------------------------------
(* Generator::getWikiFileName                                              *)

\* the string the name is made from
nodeNameOf(node) ==
    IF isFileOrDir(node) THEN node.qualifiedName
    ELSE IF node.title # <<>> THEN node.title ELSE node.name

\* "If the name is empty, use the refid"
orRefid(wikiName, node) ==
    IF wikiName = <<>> THEN wikiSafeFileName(node.refid) ELSE wikiName

\* the wiki-safe name, the refid's when that of the name is empty
candidateName(node) == orRefid(wikiSafeFileName(nodeNameOf(node)), node)

\* sameFolder without the comparison of the categories
sameFolder_AnyCategory(existingNode, node) == existingNode # 0

\* whether the found node would be in the same folder as node
sameFolder(existingNode, node) ==
    IF existingNode # 0 THEN doxygen[existingNode].type = node.type ELSE FALSE

\* the scan of the mapping for wikiName used by a node of the same folder
isDuplicate(map, wikiName, node) ==
    \E existingRefid \in DOMAIN map :
        /\ map[existingRefid] = wikiName
        /\ sameFolder(find(existingRefid), node)

\* the first value of the suffix counter
FirstSuffix == 1

\* suffixLoop without the check of the suffixed name
suffixLoop_NoRecheck(map, baseName, node, suffix) ==
    baseName \o <<"-">> \o to_string(suffix)

RECURSIVE suffixLoop(_, _, _, _)
\* while (isDuplicate): baseName-suffix for suffix, suffix + 1, ... until
\* no node of the same folder uses it
suffixLoop(map, baseName, node, suffix) ==
    LET wikiName == baseName \o <<"-">> \o to_string(suffix)
    IN  IF isDuplicate(map, wikiName, node)
        THEN suffixLoop(map, baseName, node, suffix + 1)
        ELSE wikiName

\* ensureUnique with the suffix counter starting at 0
ensureUnique_FromZero(map, baseName, node) ==
    IF isDuplicate(map, baseName, node)
    THEN suffixLoop(map, baseName, node, 0)
    ELSE baseName

\* "Ensure uniqueness within folder": baseName, suffixed when it is a
\* duplicate
ensureUnique(map, baseName, node) ==
    IF isDuplicate(map, baseName, node)
    THEN suffixLoop(map, baseName, node, FirstSuffix)
    ELSE baseName

\* the name of a node that has no entry yet
uniqueName(map, node) == ensureUnique(map, candidateName(node), node)

\* map[key] = value
Put(map, key, value) ==
    [k \in DOMAIN map \cup {key} |-> IF k = key THEN value ELSE map[k]]

\* alreadyMapped with the lookup always missing
alreadyMapped_Never(map, node) == FALSE

\* whether the call finds the refid in the mapping
alreadyMapped(map, node) == node.refid \in DOMAIN map

\* "Store in map and return"
storeAndReturn(map, g, node, wikiName) ==
    [map |-> Put(map, node.refid, wikiName),
     g |-> Put(g, node.refid, wikiName),
     value |-> wikiName, fresh |-> TRUE]

\* the call: the mappings after it, the string returned, and whether the
\* entry is new
getWikiFileName(map, g, node) ==
    IF alreadyMapped(map, node)
    THEN [map |-> map, g |-> Put(g, node.refid, map[node.refid]),
          value |-> map[node.refid], fresh |-> FALSE]
    ELSE storeAndReturn(map, g, node, uniqueName(map, node))

----------------------------------------------------------------------------
(* The specification of the resolver alone: getWikiFileName called on the  *)
(* nodes of a tree in any order, any number of times.                      *)

ReportMd == <<"R","e","p","o","r","t",".","m","d">>

\* what the analyzer may say of a node: kind, category, names
ResolveProfiles ==
    { [kind |-> "CLASS", type |-> "CLASSES", name |-> <<"X">>,
       title |-> <<>>, qualifiedName |-> <<"X">>],
      [kind |-> "STRUCT", type |-> "CLASSES", name |-> <<"X","-","1">>,
       title |-> <<>>, qualifiedName |-> <<"X","-","1">>],
      [kind |-> "NAMESPACE", type |-> "NAMESPACES", name |-> <<"X">>,
       title |-> <<>>, qualifiedName |-> <<"X">>],
      [kind |-> "PAGE", type |-> "PAGES", name |-> <<"p">>,
       title |-> <<"X"," ","1">>, qualifiedName |-> <<"p">>],
      [kind |-> "FILE", type |-> "FILES", name |-> ReportMd,
       title |-> <<>>, qualifiedName |-> ReportMd],
      [kind |-> "CLASS", type |-> "CLASSES", name |-> <<"#">>,
       title |-> <<>>, qualifiedName |-> <<"#">>] }

\* the node of this id with this profile under this parent
MkNode(id, profile, parent) ==
    [refid |-> Refid(id), parent |-> parent, url |-> Refid(id),
     kind |-> profile.kind, type |-> profile.type, name |-> profile.name,
     title |-> profile.title, qualifiedName |-> profile.qualifiedName]

InitResolve ==
    /\ \E ps \in [1..MaxNodes -> ResolveProfiles] :
          doxygen = [n \in 1..MaxNodes |-> MkNode(n, ps[n], 0)]
    /\ config = [useWikiNamingConventions |-> TRUE]
    /\ refidToWikiName = <<>>
    /\ g_refidToFilename = <<>>
    /\ phase = "ready"
    /\ call = Idle

\* the state after a call that returned r: the mappings and the record of
\* the call
Returned(r, record) ==
    /\ refidToWikiName' = r.map
    /\ g_refidToFilename' = r.g
    /\ call' = record @@ r
    /\ UNCHANGED <<doxygen, config>>

Resolve(n) ==
    /\ phase = "ready"
    /\ UNCHANGED phase
    /\ Returned(getWikiFileName(refidToWikiName, g_refidToFilename, doxygen[n]),
                [op |-> "getWikiFileName", node |-> n])

NextResolve == \E n \in NodeIds : Resolve(n)

SpecResolve == InitResolve /\ [][NextResolve]_vars

(* C1: no two distinct nodes of the same category are mapped to the same   *)
(* wiki name.                                                              *)
C1_UniquePerCategory ==
    \A a, b \in NodeIds :
        ( /\ a # b
          /\ doxygen[a].refid \in DOMAIN refidToWikiName
          /\ doxygen[b].refid \in DOMAIN refidToWikiName
          /\ doxygen[a].type = doxygen[b].type )
        => refidToWikiName[doxygen[a].refid] # refidToWikiName[doxygen[b].refid]

\* three nodes of one category whose candidate names are equal are resolved,
\* and so two of them were suffixed
C1_Witness ==
    \E a, b, c \in NodeIds :
        /\ a # b /\ b # c /\ a # c
        /\ {doxygen[a].refid, doxygen[b].refid, doxygen[c].refid}
              \subseteq DOMAIN refidToWikiName
        /\ doxygen[a].type = doxygen[b].type
        /\ doxygen[b].type = doxygen[c].type
        /\ candidateName(doxygen[a]) = candidateName(doxygen[b])
        /\ candidateName(doxygen[b]) = candidateName(doxygen[c])

\* whether node n has an entry in the mapping
Mapped(n) == doxygen[n].refid \in DOMAIN refidToWikiName

\* the wiki name of a mapped node
WikiNameOf(n) == refidToWikiName[doxygen[n].refid]

(* C2: an entry of the mapping never changes, and a later call for a node  *)
(* that has one returns the entry.                                         *)
C2_MappingPermanent ==
    [][\A r \in DOMAIN refidToWikiName :
          /\ r \in DOMAIN refidToWikiName'
          /\ refidToWikiName'[r] = refidToWikiName[r]
          /\ ( /\ call'.op = "getWikiFileName"
               /\ call' # call
               /\ doxygen[call'.node].refid = r )
             => call'.value = refidToWikiName[r]]_vars

\* a node was resolved again after another node had been resolved
C2_Witness ==
    /\ call.op = "getWikiFileName"
    /\ ~call.fresh
    /\ Cardinality(DOMAIN refidToWikiName) >= 2
    /\ call.value = WikiNameOf(call.node)

\* two FILE nodes named Report.md, a resolved before b, and no other node
\* resolved
TwoReportsResolved(a, b) ==
    /\ a # b
    /\ doxygen[a].kind = "FILE" /\ doxygen[b].kind = "FILE"
    /\ doxygen[a].type = doxygen[b].type
    /\ doxygen[a].qualifiedName = ReportMd /\ doxygen[b].qualifiedName = ReportMd
    /\ DOMAIN refidToWikiName = {doxygen[a].refid, doxygen[b].refid}
    /\ call.op = "getWikiFileName" /\ call.fresh /\ call.node = b

(* C5, as amended: two FILE nodes named Report.md of one category resolve   *)
(* to Report.md for the first and Report.md-1 for the second.              *)
C5_ReportSuffixAppended ==
    \A a, b \in NodeIds :
        TwoReportsResolved(a, b) =>
            /\ WikiNameOf(a) = ReportMd
            /\ WikiNameOf(b) = ReportMd \o <<"-","1">>
            /\ call.value = ReportMd \o <<"-","1">>

C5_Witness == \E a, b \in NodeIds : TwoReportsResolved(a, b)

(* C5, as stated: the second node resolves to Report-1.md.                 *)
C5_ReportSuffixBeforeExtension ==
    \A a, b \in NodeIds :
        TwoReportsResolved(a, b) =>
            /\ WikiNameOf(a) = ReportMd
            /\ WikiNameOf(b) = <<"R","e","p","o","r","t","-","1",".","m","d">>

(* C6: a node's wiki name differs from its candidate name only if, when it *)
(* is resolved, a resolved node of the same category holds the candidate.  *)
C6_SuffixOnlyWithinCategory ==
    [][\A n \in NodeIds :
          ( /\ doxygen[n].refid \notin DOMAIN refidToWikiName
            /\ doxygen[n].refid \in DOMAIN refidToWikiName'
            /\ refidToWikiName'[doxygen[n].refid] # candidateName(doxygen[n]) )
          => \E m \in NodeIds :
                /\ Mapped(m)
                /\ doxygen[m].type = doxygen[n].type
                /\ WikiNameOf(m) = candidateName(doxygen[n])]_vars

\* two nodes of different categories hold the same, unsuffixed, name
C6_Witness ==
    \E a, b \in NodeIds :
        /\ Mapped(a) /\ Mapped(b)
        /\ doxygen[a].type # doxygen[b].type
        /\ WikiNameOf(a) = WikiNameOf(b)
        /\ WikiNameOf(a) = candidateName(doxygen[a])
        /\ WikiNameOf(b) = candidateName(doxygen[b])

----------------------------------------------------------------------------
(* The Generator: what it reads of Config, and its traversals               *)

S_md == <<"m","d">>

\* Path::join
PathJoin(a, b) == a \o <<"/">> \o b

\* typeToFolderName(config, type)
typeToFolderName(type) == config.folderName[type]

\* typeToIndexName(config, type)
typeToIndexName(type) == config.indexName[type]

\* typeToIndexTitle(config, type)
typeToIndexTitle(type) == config.indexTitle[type]

\* the kinds kindToTemplateName knows
TemplateKinds == {"STRUCT", "INTERFACE", "UNION", "CLASS", "NAMESPACE",
                  "MODULE", "DIR", "FILE", "PAGE", "EXAMPLE", "JAVAENUM"}

\* Generator::kindToTemplateName; "throw" for an unrecognised kind
kindToTemplateName(kind) ==
    IF kind \in TemplateKinds THEN config.templateKind[kind] ELSE "throw"

\* std::filesystem::path(name).extension().string(): from the last '.' of the
\* file name, empty when there is none or it is the file name's first character
extension(name) ==
    LET slashes == {i \in 1..Len(name) : name[i] = "/"}
        start == IF slashes = {} THEN 1
                 ELSE 1 + CHOOSE i \in slashes : \A j \in slashes : j <= i
        dots == {i \in start..Len(name) : name[i] = "."}
        last == CHOOSE i \in dots : \A j \in dots : j <= i
    IN  IF dots = {} THEN <<>>
        ELSE IF last = start THEN <<>>
        ELSE IF SubSeq(name, start, Len(name)) = <<".", ".">> THEN <<>>
        ELSE SubSeq(name, last, Len(name))

\* Generator::shouldInclude
shouldInclude(node) ==
    IF node.kind = "FILE"
    THEN IF config.filesFilter = {} THEN TRUE
         ELSE extension(node.name) \in config.filesFilter
    ELSE TRUE

\* the test on a child of printRecursively and jsonRecursively (and of
\* summaryRecursive): the child's own output is produced
ownOutput(child, filter, skip) ==
    child.kind \notin skip /\ shouldInclude(child)

\* the file name of a dispatched node: the mappings after it and the name
\* (value)
fileNameOf(acc, child) ==
    IF config.useWikiNamingConventions
    THEN getWikiFileName(acc.map, acc.g, child)
    ELSE [map |-> acc.map, g |-> acc.g, value |-> child.refid]

\* whether the child is the main page
isMainPage(child) == child.kind = "PAGE" /\ child.refid = config.mainPageName

\* the path printRecursively renders a child to
printPath(child, filename) ==
    IF isMainPage(child) THEN filename \o <<".">> \o config.fileExt
    ELSE IF config.useFolders
         THEN PathJoin(typeToFolderName(child.type),
                       filename \o <<".">> \o config.fileExt)
         ELSE filename \o <<".">> \o config.fileExt

\* whether renderer.render fails for child n: a template that does not
\* render, or an output file that does not open
rendererFails(acc, n) == n \in acc.failing

\* whether std::ofstream file(path) of jsonRecursively fails to open
openFails(acc, n) == n \in acc.failing

\* the exception thrown at child n, named as f says: it leaves the pass with
\* the mappings as they are and nothing more written
thrown(acc, n, f) ==
    [map |-> f.map, g |-> f.g, out |-> acc.out,
     failing |-> acc.failing, failedAt |-> n]

\* the body of printRecursively's inner if: the render of one child
\* renderer.render for child n, named as f says
render(acc, n, f) ==
    IF rendererFails(acc, n) THEN thrown(acc, n, f)
    ELSE
    [map |-> f.map, g |-> f.g,
     out |-> Append(acc.out,
                    [node |-> n,
                     template |-> kindToTemplateName(doxygen[n].kind),
                     path |-> printPath(doxygen[n], f.value)]),
     failing |-> acc.failing, failedAt |-> 0]

printChild(acc, n) == render(acc, n, fileNameOf(acc, doxygen[n]))

\* printRecursively descending into every child, in the filter or not
RECURSIVE printRecursively_AllChildren(_, _, _, _)
printRecursively_AllChildren(cs, filter, skip, acc) ==
    IF cs = <<>> \/ acc.failedAt # 0 THEN acc
    ELSE LET child == doxygen[Head(cs)]
             below == printRecursively_AllChildren(getChildren(Head(cs)),
                         filter, skip,
                         IF child.kind \in filter /\ ownOutput(child, filter, skip)
                         THEN printChild(acc, Head(cs)) ELSE acc)
         IN  printRecursively_AllChildren(Tail(cs), filter, skip, below)

\* Generator::printRecursively, as its loop over the children cs of the
\* parent that are still to visit; acc holds the mappings and the renders
\* so far, and the node an exception was thrown at (0 when none was): an
\* exception leaves every loop of the recursion
RECURSIVE printRecursively(_, _, _, _)
printRecursively(cs, filter, skip, acc) ==
    IF cs = <<>> \/ acc.failedAt # 0 THEN acc
    ELSE LET child == doxygen[Head(cs)]
             below == IF child.kind \in filter
                      THEN printRecursively(getChildren(Head(cs)), filter, skip,
                              IF ownOutput(child, filter, skip)
                              THEN printChild(acc, Head(cs)) ELSE acc)
                      ELSE acc
         IN  printRecursively(Tail(cs), filter, skip, below)

\* the body of jsonRecursively's inner if: the file of one child
\* the write of child n's file, named as f says
writeJson(acc, n, f) ==
    IF openFails(acc, n) THEN thrown(acc, n, f)
    ELSE
    [map |-> f.map, g |-> f.g,
     out |-> Append(acc.out,
                    [node |-> n,
                     path |-> PathJoin(config.outputDir,
                                       f.value \o <<".","j","s","o","n">>)]),
     failing |-> acc.failing, failedAt |-> 0]

jsonChild(acc, n) == writeJson(acc, n, fileNameOf(acc, doxygen[n]))

\* jsonRecursively going on with the next child after an exception
RECURSIVE jsonRecursively_Resume(_, _, _, _)
jsonRecursively_Resume(cs, filter, skip, acc) ==
    IF cs = <<>> THEN acc
    ELSE LET child == doxygen[Head(cs)]
             below == IF child.kind \in filter
                      THEN jsonRecursively_Resume(getChildren(Head(cs)), filter,
                              skip,
                              IF ownOutput(child, filter, skip)
                              THEN jsonChild(acc, Head(cs)) ELSE acc)
                      ELSE acc
         IN  jsonRecursively_Resume(Tail(cs), filter, skip, below)

\* Generator::jsonRecursively, as its loop over the children cs
RECURSIVE jsonRecursively(_, _, _, _)
jsonRecursively(cs, filter, skip, acc) ==
    IF cs = <<>> \/ acc.failedAt # 0 THEN acc
    ELSE LET child == doxygen[Head(cs)]
             below == IF child.kind \in filter
                      THEN jsonRecursively(getChildren(Head(cs)), filter, skip,
                              IF ownOutput(child, filter, skip)
                              THEN jsonChild(acc, Head(cs)) ELSE acc)
                      ELSE acc
         IN  jsonRecursively(Tail(cs), filter, skip, below)

\* buildWikiNameMapping's own update of the global mapping for child n, for
\* which getWikiFileName returned r
mapped(acc, n, r) ==
    [map |-> r.map, g |-> Put(r.g, doxygen[n].refid, r.value),
     out |-> Append(acc.out, n)]

\* buildWikiNameMapping leaving out, with their subtrees, the children that
\* shouldInclude rejects
RECURSIVE buildWikiNameMapping_Included(_, _)
buildWikiNameMapping_Included(cs, acc) ==
    IF cs = <<>> THEN acc
    ELSE buildWikiNameMapping_Included(Tail(cs),
            IF shouldInclude(doxygen[Head(cs)])
            THEN buildWikiNameMapping_Included(getChildren(Head(cs)),
                    mapped(acc, Head(cs),
                           getWikiFileName(acc.map, acc.g, doxygen[Head(cs)])))
            ELSE acc)

\* Generator::buildWikiNameMapping, as its loop over the children cs; acc
\* holds the mappings and the nodes resolved so far, in order
RECURSIVE buildWikiNameMapping(_, _)
buildWikiNameMapping(cs, acc) ==
    IF cs = <<>> THEN acc
    ELSE buildWikiNameMapping(Tail(cs),
            buildWikiNameMapping(getChildren(Head(cs)),
                mapped(acc, Head(cs),
                       getWikiFileName(acc.map, acc.g, doxygen[Head(cs)]))))

----------------------------------------------------------------------------
(* The specification of a run: a Generator is constructed on a tree and a  *)
(* Config, and then its public operations are called, in any order.         *)

\* what the analyzer may say of a node: kind, category, names
Profiles ==
    { [kind |-> "CLASS", type |-> "CLASSES", name |-> <<"X">>,
       title |-> <<>>, qualifiedName |-> <<"X">>],
      [kind |-> "MODULE", type |-> "MODULES", name |-> <<"X">>,
       title |-> <<>>, qualifiedName |-> <<"X">>],
      [kind |-> "FILE", type |-> "FILES", name |-> <<"a",".","h">>,
       title |-> <<>>, qualifiedName |-> <<"a",".","h">>],
      [kind |-> "PAGE", type |-> "PAGES", name |-> <<"p">>,
       title |-> <<"X">>, qualifiedName |-> <<"p">>] }

\* the trees of n nodes, the ids in pre-order: a node's parent is the node
\* before it or one of that node's ancestors
Shapes(n) ==
    {par \in [1..n -> 0..(n - 1)] :
        \A k \in 1..n :
            /\ par[k] < k
            /\ \A m \in (par[k] + 1)..(k - 1) : par[m] >= par[k]}

Categories == {"NAMESPACES", "CLASSES", "MODULES", "FILES", "PAGES"}

\* the Config of a run: the two naming switches and the files filter vary
Configs ==
    {[useWikiNamingConventions |-> w, useFolders |-> f, filesFilter |-> ff,
      mainPageName |-> Refid(1), fileExt |-> S_md, outputDir |-> <<"o">>,
      folderName |-> [t \in Categories |->
          CASE t = "NAMESPACES" -> <<"N">> [] t = "CLASSES" -> <<"C">>
            [] t = "MODULES" -> <<"G","r","o","u","p">>
            [] t = "FILES" -> <<"F">> [] t = "PAGES" -> <<"P">>],
      indexName |-> [t \in Categories |->
          CASE t = "NAMESPACES" -> <<"i","N">> [] t = "CLASSES" -> <<"i","C">>
            [] t = "MODULES" -> <<"G","r","o","u","p">>
            [] t = "FILES" -> <<"i","F">> [] t = "PAGES" -> <<"i","P">>],
      indexTitle |-> [t \in Categories |->
          CASE t = "NAMESPACES" -> <<"N","s">> [] t = "CLASSES" -> <<"C","s">>
            [] t = "MODULES" -> <<"G","r","o","u","p">>
            [] t = "FILES" -> <<"F","s">> [] t = "PAGES" -> <<"P","s">>],
      templateKind |-> [k \in TemplateKinds |-> k]] :
        w \in BOOLEAN, f \in BOOLEAN, ff \in {{}, {<<".","c">>}}}

\* the filter and skip sets the operations are called with
Filters == { {"MODULE", "CLASS", "FILE", "PAGE"},
             {"MODULE", "FILE"},
             {"CLASS", "FILE", "PAGE"} }
Skips == { {}, {"MODULE"} }

Init ==
    /\ \E par \in Shapes(MaxNodes), ps \in [1..MaxNodes -> Profiles] :
          doxygen = [n \in 1..MaxNodes |-> MkNode(n, ps[n], par[n])]
    /\ config \in Configs
    /\ refidToWikiName = <<>>
    /\ g_refidToFilename = <<>>
    /\ phase = "new"
    /\ call = Idle

\* the mappings a traversal starts from
Start == [map |-> refidToWikiName, g |-> g_refidToFilename, out |-> <<>>]

\* the start of a print or json pass in which the renders or file opens of
\* the nodes in failing fail
StartPass(failing) ==
    [map |-> refidToWikiName, g |-> g_refidToFilename, out |-> <<>>,
     failing |-> failing, failedAt |-> 0]

\* Generator::manifestRecursively's record of a child, before its children
manifestData(child) ==
    IF child.kind = "MODULE"
    THEN [kind |-> child.kind, name |-> child.name, title |-> child.title,
          url |-> child.url]
    ELSE [kind |-> child.kind, name |-> child.name, url |-> child.url]

\* withChildren always setting the key
withChildren_Always(data, test) == data @@ [children |-> test]

\* if (!test.empty()) data["children"] = test
withChildren(data, test) ==
    IF test # <<>> THEN data @@ [children |-> test] ELSE data

\* Generator::manifestRecursively, as its loop over the children cs
RECURSIVE manifestRecursively(_)
manifestRecursively(cs) ==
    IF cs = <<>> THEN <<>>
    ELSE IF ~shouldInclude(doxygen[Head(cs)])
         THEN manifestRecursively(Tail(cs))
         ELSE <<withChildren(manifestData(doxygen[Head(cs)]),
                             manifestRecursively(getChildren(Head(cs))))>>
              \o manifestRecursively(Tail(cs))

\* the printable characters but the backslash, in the order of their codes
Ascii ==
    <<" ","!","\"","#","$","%","&","'","(",")","*","+",",","-",".","/",
      "0","1","2","3","4","5","6","7","8","9",":",";","<","=",">","?",
      "@","A","B","C","D","E","F","G","H","I","J","K","L","M","N","O",
      "P","Q","R","S","T","U","V","W","X","Y","Z","[","]","^","_",
      "a","b","c","d","e","f","g","h","i","j","k","l","m","n","o",
      "p","q","r","s","t","u","v","w","x","y","z","{","|","}","~">>

\* where a character stands in that order
CharCode(c) == CHOOSE i \in 1..Len(Ascii) : Ascii[i] = c

\* std::string's operator<
StrLess(a, b) ==
    \E i \in 1..Len(b) :
        /\ \A j \in 1..(i - 1) : j <= Len(a) /\ a[j] = b[j]
        /\ i <= Len(a) => CharCode(a[i]) < CharCode(b[i])

\* whether std::sort puts node a before node b: by name, and nodes of equal
\* names in an order std::sort leaves open, tie chooses it
sortsBefore(a, b, tie) ==
    \/ StrLess(doxygen[a].name, doxygen[b].name)
    \/ /\ doxygen[a].name = doxygen[b].name
       /\ IF tie = "kept" THEN a < b ELSE a > b

\* std::sort of a sequence of ids by name
sortByName(seq, tie) ==
    [i \in 1..Len(seq) |->
        CHOOSE n \in {seq[k] : k \in 1..Len(seq)} :
            Cardinality({m \in {seq[k] : k \in 1..Len(seq)} :
                            sortsBefore(m, n, tie)}) = i - 1]

\* the children of node p that buildIndexRecursively collects, sorted
sortedChildren(p, filter, tie) ==
    sortByName(SelectSeq(getChildren(p),
                         LAMBDA n : /\ doxygen[n].kind \in filter
                                    /\ shouldInclude(doxygen[n])),
               tie)

\* JsonConverter::convert: the record of a node
convert(child) ==
    [refid |-> child.refid, kind |-> child.kind, name |-> child.name]

\* Generator::buildIndexRecursively, as its loop over sorted
RECURSIVE buildIndexRecursively(_, _, _, _)
buildIndexRecursively(sorted, filter, skip, tie) ==
    IF sorted = <<>> THEN <<>>
    ELSE <<withChildren(convert(doxygen[Head(sorted)]),
                        buildIndexRecursively(
                            sortedChildren(Head(sorted), filter, tie),
                            filter, skip, tie))>>
         \o buildIndexRecursively(Tail(sorted), filter, skip, tie)

\* the placeholder of the summary template
Placeholder == <<"{","{","d","o","x","y","g","e","n","}","}">>

\* the compare lambda of summary, on the characters of a and of b: true when
\* they agree up to the end of the shorter
compare(a, b) ==
    \A k \in 1..(IF Len(a) < Len(b) THEN Len(a) ELSE Len(b)) : a[k] = b[k]

RECURSIVE scanTemplate(_, _, _)
\* the loop of summary over tmpl from index i (0-based): offset and indent
scanTemplate(tmpl, i, indent) ==
    IF i >= Len(tmpl) THEN [offset |-> Len(tmpl), indent |-> indent]
    ELSE IF compare(SubstrFrom(tmpl, i), Placeholder)
         THEN [offset |-> i, indent |-> indent]
         ELSE scanTemplate(tmpl, i + 1,
                           IF tmpl[i + 1] = " " THEN indent + 1 ELSE 0)

\* the line summaryRecursive writes for a child
summaryLine(indent, folderName, child, filename) ==
    Rep(" ", indent) \o <<"*"," ","[">> \o child.name \o <<"]","(">>
    \o folderName \o <<"/">> \o filename \o <<".","m","d",")","\n">>

\* what summaryRecursive appends for child n, named as f says
appendLine(acc, indent, folderName, n, f) ==
    [map |-> f.map, g |-> f.g,
     out |-> acc.out \o summaryLine(indent, folderName, doxygen[n], f.value)]

\* the body of summaryRecursive's inner if
summaryChild(acc, indent, folderName, n) ==
    appendLine(acc, indent, folderName, n, fileNameOf(acc, doxygen[n]))

\* Generator::summaryRecursive, as its loop over the children cs; acc holds
\* the mappings and the text of ss
RECURSIVE summaryRecursive(_, _, _, _, _, _)
summaryRecursive(cs, indent, folderName, filter, skip, acc) ==
    IF cs = <<>> THEN acc
    ELSE LET child == doxygen[Head(cs)]
             below ==
                 IF isMainPage(child) THEN acc
                 ELSE IF child.kind \in filter
                 THEN summaryRecursive(getChildren(Head(cs)), indent,
                         folderName, filter, skip,
                         IF ownOutput(child, filter, skip)
                         THEN summaryChild(acc, indent, folderName, Head(cs))
                         ELSE acc)
                 ELSE acc
         IN  summaryRecursive(Tail(cs), indent, folderName, filter, skip, below)

\* the line summary writes for a section
sectionLine(indent, type) ==
    Rep(" ", indent) \o <<"*"," ","[">> \o typeToIndexTitle(type)
    \o <<"]","(">> \o typeToIndexName(type) \o <<".">> \o config.fileExt
    \o <<")","\n">>

\* acc with text appended to ss
write(acc, text) == [map |-> acc.map, g |-> acc.g, out |-> acc.out \o text]

\* summarySections giving the children the indent of the section line
RECURSIVE summarySections_SameIndent(_, _, _)
summarySections_SameIndent(sections, indent, acc) ==
    IF sections = <<>> THEN acc
    ELSE summarySections_SameIndent(Tail(sections), indent,
            summaryRecursive(getChildren(0), indent,
                typeToIndexTitle(Head(sections).type),
                Head(sections).filter, Head(sections).skip,
                write(acc, sectionLine(indent, Head(sections).type))))

RECURSIVE summarySections(_, _, _)
\* the loop of summary over the sections
summarySections(sections, indent, acc) ==
    IF sections = <<>> THEN acc
    ELSE summarySections(Tail(sections), indent,
            summaryRecursive(getChildren(0), indent + 2,
                typeToIndexTitle(Head(sections).type),
                Head(sections).filter, Head(sections).skip,
                write(acc, sectionLine(indent, Head(sections).type))))

\* the three writes to output: the template up to offset, ss from indent on
\* (substr throws std::out_of_range when ss is shorter than indent), and the
\* template after the placeholder
spliced(tmpl, at, acc) ==
    IF at.indent > Len(acc.out)
    THEN [map |-> acc.map, g |-> acc.g, threw |-> TRUE,
          offset |-> at.offset,
          out |-> SubstrTo(tmpl, at.offset)]
    ELSE [map |-> acc.map, g |-> acc.g, threw |-> FALSE,
          offset |-> at.offset,
          out |-> SubstrTo(tmpl, at.offset) \o SubstrFrom(acc.out, at.indent)
                  \o (IF at.offset + Len(Placeholder) < Len(tmpl)
                      THEN SubstrFrom(tmpl, at.offset + Len(Placeholder))
                      ELSE <<>>)]

\* summary once offset and indent are known
summaryAt(tmpl, sections, at) ==
    spliced(tmpl, at, summarySections(sections, at.indent, Start))

\* "copying all entries from refidToWikiName to g_refidToFilename"
copyToGlobal(r) ==
    [map |-> r.map,
     g |-> [k \in DOMAIN r.g \cup DOMAIN r.map |->
               IF k \in DOMAIN r.map THEN r.map[k] ELSE r.g[k]],
     resolved |-> r.out]

\* Generator::Generator
Construct ==
    /\ phase = "new"
    /\ phase' = "called"
    /\ IF config.useWikiNamingConventions
       THEN Returned(copyToGlobal(buildWikiNameMapping(getChildren(0), Start)),
                     [op |-> "Generator"])
       ELSE Returned([map |-> refidToWikiName, g |-> g_refidToFilename,
                      resolved |-> <<>>],
                     [op |-> "Generator"])

\* Generator::print; the renders of the nodes in failing fail
print(filter, skip, failing) ==
    /\ phase = "ready"
    /\ phase' = "called"
    /\ Returned(printRecursively(getChildren(0), filter, skip,
                                 StartPass(failing)),
                [op |-> "print", filter |-> filter, skip |-> skip])

\* Generator::json; the file opens of the nodes in failing fail
json(filter, skip, failing) ==
    /\ phase = "ready"
    /\ phase' = "called"
    /\ Returned(jsonRecursively(getChildren(0), filter, skip,
                                StartPass(failing)),
                [op |-> "json", filter |-> filter, skip |-> skip])

\* Generator::manifest
manifest ==
    /\ phase = "ready"
    /\ phase' = "called"
    /\ Returned([map |-> refidToWikiName, g |-> g_refidToFilename,
                 out |-> manifestRecursively(getChildren(0))],
                [op |-> "manifest"])

\* Generator::printIndex
printIndex(type, filter, skip, tie) ==
    /\ phase = "ready"
    /\ phase' = "called"
    /\ Returned([map |-> refidToWikiName, g |-> g_refidToFilename,
                 out |-> buildIndexRecursively(sortedChildren(0, filter, tie),
                                               filter, skip, tie)],
                [op |-> "printIndex", type |-> type, filter |-> filter,
                 skip |-> skip,
                 path |-> typeToIndexName(type) \o <<".">> \o config.fileExt])

\* the templates summary is given
Templates ==
    { <<"b","e","f","o","r","e","\n"," "," ">> \o Placeholder
         \o <<"\n","a","f","t","e","r">>,
      Placeholder \o <<"x">>,
      <<"a"," ","{","{">>,
      <<"a"," ">> }

\* the section lists summary is given
SectionLists ==
    { <<>>,
      <<[type |-> "MODULES", filter |-> {"MODULE"}, skip |-> {}]>>,
      <<[type |-> "CLASSES", filter |-> {"MODULE", "CLASS", "FILE", "PAGE"},
         skip |-> {"MODULE"}],
        [type |-> "PAGES", filter |-> {"PAGE"}, skip |-> {}]>> }

\* Generator::summary
summary(tmpl, sections) ==
    /\ phase = "ready"
    /\ phase' = "called"
    /\ Returned(summaryAt(tmpl, sections, scanTemplate(tmpl, 0, 0)),
                [op |-> "summary", tmpl |-> tmpl, sections |-> sections])

\* the operation called returns to the caller of the Generator, which goes
\* on to its next call
Continue ==
    /\ phase = "called"
    /\ phase' = "ready"
    /\ call' = Idle
    /\ UNCHANGED <<doxygen, config, refidToWikiName, g_refidToFilename>>

Next ==
    \/ Construct
    \/ Continue
    \/ \E filter \in Filters, skip \in Skips : print(filter, skip, {})
    \/ \E filter \in Filters, skip \in Skips : json(filter, skip, {})
    \/ manifest
    \/ \E filter \in Filters, skip \in Skips, tie \in {"kept", "reversed"} :
          printIndex("CLASSES", filter, skip, tie)
    \/ \E tmpl \in Templates, sections \in SectionLists :
          summary(tmpl, sections)

\* a run in which every render and every file open succeeds
Spec == Init /\ [][Next]_vars

\* the nodes whose render or file open fails in a pass: none, one node, or
\* every node from one on (the disk is full)
FailureSets ==
    {{}} \cup {{n} : n \in NodeIds} \cup {{m \in NodeIds : m >= n} : n \in NodeIds}

\* a Generator about to be constructed, writing into folders
InitIO == Init /\ config.useFolders

\* a run in which renders and file opens may fail
NextIO ==
    \/ Construct
    \/ Continue
    \/ \E filter \in Filters, skip \in Skips, failing \in FailureSets :
          print(filter, skip, failing)
    \/ \E filter \in Filters, skip \in Skips, failing \in FailureSets :
          json(filter, skip, failing)

SpecIO == InitIO /\ [][NextIO]_vars

----------------------------------------------------------------------------
(* Claims on a run                                                         *)

\* whether the last operation dispatched node n
Dispatched(n) == \E i \in 1..Len(call.out) : call.out[i].node = n

\* whether n's own kind and name let the last operation produce its output
Eligible(n) ==
    /\ doxygen[n].kind \in call.filter
    /\ doxygen[n].kind \notin call.skip
    /\ shouldInclude(doxygen[n])

RECURSIVE AncestorsOf(_)
\* the nodes above n, below the index root
AncestorsOf(n) ==
    IF doxygen[n].parent = 0 THEN {}
    ELSE {doxygen[n].parent} \cup AncestorsOf(doxygen[n].parent)

(* C3: within one print pass, and within one json pass, no two dispatched  *)
(* nodes are written to the same path.                                     *)
C3_NoPathCollision ==
    call.op \in {"print", "json"} =>
        \A i, j \in 1..Len(call.out) :
            i # j => call.out[i].path # call.out[j].path

(* C4, as amended: a print or json pass dispatches a node exactly when its *)
(* own kind is in filter and not in skip, it passes shouldInclude, and the  *)
(* kind of every node above it is in filter: below a child whose kind is   *)
(* not in filter nothing is visited.                                       *)
C4_FilterGatesDescent ==
    call.op \in {"print", "json"} =>
        \A n \in NodeIds :
            Dispatched(n) <=>
                /\ Eligible(n)
                /\ \A a \in AncestorsOf(n) : doxygen[a].kind \in call.filter

\* a pass left out an eligible node below a node whose kind is not in filter,
\* and dispatched another node
C4_Witness ==
    /\ call.op \in {"print", "json"}
    /\ call.out # <<>>
    /\ \E n \in NodeIds :
          /\ Eligible(n)
          /\ \E a \in AncestorsOf(n) : doxygen[a].kind \notin call.filter
          /\ ~Dispatched(n)

(* C4, as stated: every node whose own kind is in filter and not in skip   *)
(* and which passes shouldInclude is dispatched, whatever the kinds of the *)
(* nodes above it.                                                         *)
C4_FilterGatesOwnOutputOnly ==
    call.op \in {"print", "json"} =>
        \A n \in NodeIds : Dispatched(n) <=> Eligible(n)

\* the template and the section of the summary example
BeforeAfterTemplate ==
    <<"b","e","f","o","r","e","\n"," "," ">> \o Placeholder
    \o <<"\n","a","f","t","e","r">>

GroupSection == [type |-> "MODULES", filter |-> {"MODULE"}, skip |-> {}]

\* summary ran on the example: the template, one section titled Group, and a
\* tree whose one node of the section's filter is a child of the root, named
\* X and with the file name X
SummaryExample ==
    /\ call.op = "summary"
    /\ call.tmpl = BeforeAfterTemplate
    /\ call.sections = <<GroupSection>>
    /\ typeToIndexTitle("MODULES") = <<"G","r","o","u","p">>
    /\ typeToIndexName("MODULES") = <<"G","r","o","u","p">>
    /\ config.useWikiNamingConventions
    /\ \E n \in NodeIds :
          /\ doxygen[n].kind = "MODULE"
          /\ doxygen[n].parent = 0
          /\ doxygen[n].name = <<"X">>
          /\ refidToWikiName[doxygen[n].refid] = <<"X">>
          /\ \A m \in NodeIds \ {n} : doxygen[m].kind # "MODULE"

(* C8, as amended: on the example summary writes                           *)
(* "before\n  * [Group](Group.md)\n    * [X](Group/X.md)\n\nafter": the    *)
(* child line is indented two spaces more than the section line, and the   *)
(* template's text from the newline after the placeholder on follows the   *)
(* block's own last newline.                                               *)
C8_SummaryExampleOutput ==
    SummaryExample =>
        /\ ~call.threw
        /\ call.out =
              <<"b","e","f","o","r","e","\n">>
              \o <<" "," ","*"," ","[","G","r","o","u","p","]",
                   "(","G","r","o","u","p",".","m","d",")","\n">>
              \o <<" "," "," "," ","*"," ","[","X","]",
                   "(","G","r","o","u","p","/","X",".","m","d",")","\n">>
              \o <<"\n","a","f","t","e","r">>

C8_Witness == SummaryExample

(* C8, as stated: on the example summary writes                            *)
(* "before\n  * [Group](Group.md)\n  * [X](Group/X.md)\nafter".            *)
C8_SummaryExampleFlat ==
    SummaryExample =>
        call.out =
              <<"b","e","f","o","r","e","\n">>
              \o <<" "," ","*"," ","[","G","r","o","u","p","]",
                   "(","G","r","o","u","p",".","m","d",")","\n">>
              \o <<" "," ","*"," ","[","X","]",
                   "(","G","r","o","u","p","/","X",".","m","d",")","\n">>
              \o <<"a","f","t","e","r">>

RECURSIVE IndexRecords(_)
\* the records of an index, at every level
IndexRecords(records) ==
    {records[i] : i \in 1..Len(records)}
    \cup UNION {IndexRecords(records[i].children) :
                   i \in {k \in 1..Len(records) :
                             "children" \in DOMAIN records[k]}}

(* C9: a node appears in the index only if its kind is in filter, its kind *)
(* is not in skip, and it passes shouldInclude.                            *)
C9_IndexGatedByFilterAndSkip ==
    call.op = "printIndex" =>
        \A r \in IndexRecords(call.out) :
            /\ r.kind \in call.filter
            /\ r.kind \notin call.skip
            /\ shouldInclude(doxygen[find(r.refid)])

\* the children of p that pass shouldInclude, in the tree's order
IncludedChildren(p) ==
    SelectSeq(getChildren(p), LAMBDA n : shouldInclude(doxygen[n]))

RECURSIVE ManifestOk(_, _)
\* records are those of the included children of p, in the tree's order, and
\* each has a children key exactly when it has an included child, the key
\* then holding the records of those
ManifestOk(records, p) ==
    /\ Len(records) = Len(IncludedChildren(p))
    /\ \A i \in 1..Len(records) :
          /\ records[i].url = doxygen[IncludedChildren(p)[i]].url
          /\ records[i].name = doxygen[IncludedChildren(p)[i]].name
          /\ "children" \in DOMAIN records[i]
                <=> IncludedChildren(IncludedChildren(p)[i]) # <<>>
          /\ "children" \in DOMAIN records[i] =>
                /\ records[i].children # <<>>
                /\ ManifestOk(records[i].children, IncludedChildren(p)[i])

(* C10: in the manifest a record has a children key if and only if the     *)
(* node has a child passing shouldInclude, the key is never an empty list, *)
(* and the records of each level are in the tree's child order.            *)
C10_ManifestChildrenKey ==
    call.op = "manifest" => ManifestOk(call.out, 0)

\* a manifest of two records or more in which a node whose children are all
\* excluded has no children key
C10_Witness ==
    /\ call.op = "manifest"
    /\ Len(call.out) >= 2
    /\ \E i \in 1..Len(call.out) :
          /\ "children" \notin DOMAIN call.out[i]
          /\ getChildren(find(call.out[i].url)) # <<>>

----------------------------------------------------------------------------
(* Claims on a run in which renders and file opens may fail                *)

\* whether a pass over the whole tree reaches n: its own output is due and
\* the traversal descends to it
Due(n) ==
    /\ Eligible(n)
    /\ \A a \in AncestorsOf(n) : doxygen[a].kind \in call.filter

(* C11: a render or file-open failure ends the print or json pass at the   *)
(* failing node.  The nodes are numbered in pre-order: the pass fails at   *)
(* the first due node whose render or open fails; the outputs written are  *)
(* exactly those of the due nodes before it, each once; no node after it   *)
(* is dispatched and the failing node is not tried again.  A pass without  *)
(* a failure met no failing node.                                          *)
C11_FailureIsTerminal ==
    call.op \in {"print", "json"} =>
        IF call.failedAt # 0
        THEN /\ call.failedAt \in call.failing
             /\ Due(call.failedAt)
             /\ \A n \in NodeIds :
                   Dispatched(n) <=> (n < call.failedAt /\ Due(n))
             /\ \A i \in 1..Len(call.out) :
                   /\ call.out[i].node \notin call.failing
                   /\ \A j \in 1..Len(call.out) :
                         i < j => call.out[i].node < call.out[j].node
        ELSE \A n \in NodeIds : Due(n) => n \notin call.failing

\* a json pass failed at a node after writing an earlier node's file, and a
\* later node that was due was not dispatched
C11_Witness ==
    /\ call.op = "json"
    /\ call.failedAt # 0
    /\ \E n \in NodeIds : n < call.failedAt /\ Dispatched(n)
    /\ \E n \in NodeIds :
          /\ n > call.failedAt
          /\ Due(n)
          /\ ~Dispatched(n)

----------------------------------------------------------------------------
(* Claims on the pre-pass of the constructor                               *)

\* the nodes below the root in depth-first pre-order: the trees of the
\* model number their nodes so
PreOrder == [i \in 1..MaxNodes |-> i]

(* C12: with wiki naming enabled, the constructor resolves every node      *)
(* below the root once, in depth-first pre-order, whatever filter, skip    *)
(* and shouldInclude say of it; from the constructor's return on every     *)
(* node has a mapping entry, and no print, json, manifest, index or        *)
(* summary pass adds an entry or changes one.                              *)
C12_PrePassMapsEveryNode ==
    /\ [](config.useWikiNamingConventions /\ call.op = "Generator"
            => call.resolved = PreOrder)
    /\ [](config.useWikiNamingConventions /\ phase # "new"
            => \A n \in NodeIds : Mapped(n))
    /\ [][config.useWikiNamingConventions /\ phase = "ready"
            => refidToWikiName' = refidToWikiName]_vars

\* with wiki naming enabled a print pass has dispatched a node, and a node
\* that shouldInclude rejects has its entry
C12_Witness ==
    /\ config.useWikiNamingConventions
    /\ call.op = "print"
    /\ call.out # <<>>
    /\ \E n \in NodeIds : ~shouldInclude(doxygen[n]) /\ Mapped(n)

----------------------------------------------------------------------------
(* Claims on the scan of the summary template                              *)

\* the indices (from 0) at which the complete placeholder occurs in tmpl
Occurrences(tmpl) ==
    {i \in 0..(Len(tmpl) - Len(Placeholder)) :
        SubSeq(tmpl, i + 1, i + Len(Placeholder)) = Placeholder}

\* the index of the first complete placeholder, the length of tmpl if none
FirstOccurrence(tmpl) ==
    IF Occurrences(tmpl) = {} THEN Len(tmpl)
    ELSE CHOOSE i \in Occurrences(tmpl) : \A j \in Occurrences(tmpl) : i <= j

(* C13: the offset summary splices at is the index of the first complete   *)
(* {{doxygen}} of the template, and the length of the template when it     *)
(* holds none; then the output starts with the whole template.             *)
C13_ExactFirstOccurrence ==
    call.op = "summary" =>
        /\ call.offset = FirstOccurrence(call.tmpl)
        /\ (Occurrences(call.tmpl) = {} /\ ~call.threw)
              => SubstrTo(call.out, Len(call.tmpl)) = call.tmpl

----------------------------------------------------------------------------
(* The specification of wikiSafeFileName alone: one call on one input      *)

\* the characters inputs are built from: kept, replaced, encoded, dropped
SafeAlphabet == {"a", " ", ".", ":", "/", "-"}

\* lengths of the long run put in front of an input, around MaxFileNameLen
RunLengths == {0, MaxFileNameLen - 2, MaxFileNameLen - 1}

SafeInputs ==
    {Rep(c, k) \o t : c \in {"a", ":"}, k \in RunLengths,
                      t \in StringsUpTo(SafeAlphabet, MaxStrLen)}

InitSafe ==
    /\ doxygen = <<>>
    /\ config = [useWikiNamingConventions |-> FALSE]
    /\ refidToWikiName = <<>>
    /\ g_refidToFilename = <<>>
    /\ phase = "input"
    /\ \E s \in SafeInputs : call = [op |-> "input", arg |-> s]

CallWikiSafeFileName ==
    /\ phase = "input"
    /\ phase' = "done"
    /\ call' = [op |-> "wikiSafeFileName", arg |-> call.arg,
                value |-> wikiSafeFileName(call.arg)]
    /\ UNCHANGED <<doxygen, config, refidToWikiName, g_refidToFilename>>

NextSafe == CallWikiSafeFileName

SpecSafe == InitSafe /\ [][NextSafe]_vars

\* the characters a wiki file name may hold: the kept ones and those of the
\* percent-encodings
PermittedChars == Lower \cup Upper \cup Digits \cup {"_", ".", "+", "-", "%"}

(* C7: wikiSafeFileName returns, for every input, a string of at most 200  *)
(* characters that holds only permitted characters and has neither a       *)
(* leading nor a trailing '.'.                                             *)
C7_SafeNameWellFormed ==
    call.op = "wikiSafeFileName" =>
        /\ Len(call.value) <= MaxFileNameLen
        /\ \A i \in 1..Len(call.value) : call.value[i] \in PermittedChars
        /\ call.value # <<>> =>
              /\ call.value[1] # "."
              /\ call.value[Len(call.value)] # "."


----------------------------------------------------------------------------
(* The specification of getWikiFileName on nodes of any identity           *)

\* the characters of an identity: a letter, a period, a character that
\* wikiSafeFileName removes
IdentityAlphabet == {"a", ".", "#"}

\* the identities of the first node: the non-empty strings
Identities == StringsUpTo(IdentityAlphabet, MaxStrLen) \ {<<>>}

\* what the analyzer may say of a node: a name that sanitizes to the empty
\* string, or one that does not
IdentityProfiles ==
    { [kind |-> "CLASS", type |-> "CLASSES", name |-> <<"#">>,
       title |-> <<>>, qualifiedName |-> <<"#">>],
      [kind |-> "CLASS", type |-> "CLASSES", name |-> <<"X">>,
       title |-> <<>>, qualifiedName |-> <<"X">>] }

\* node n with the refid and url id
Identified(node, id) ==
    [refid |-> id, parent |-> node.parent, url |-> id,
     kind |-> node.kind, type |-> node.type, name |-> node.name,
     title |-> node.title, qualifiedName |-> node.qualifiedName]

InitIdentity ==
    /\ \E ps \in [1..MaxNodes -> IdentityProfiles], id \in Identities :
          doxygen = [n \in 1..MaxNodes |->
                        IF n = 1 THEN Identified(MkNode(n, ps[n], 0), id)
                        ELSE MkNode(n, ps[n], 0)]
    /\ config = [useWikiNamingConventions |-> TRUE]
    /\ refidToWikiName = <<>>
    /\ g_refidToFilename = <<>>
    /\ phase = "ready"
    /\ call = Idle

SpecIdentity == InitIdentity /\ [][NextResolve]_vars

(* C14: getWikiFileName returns a non-empty name for every node whose      *)
(* identity is not empty, also when the node's name sanitizes to the empty *)
(* string.                                                                 *)
C14_WikiNameNotEmpty ==
    call.op = "getWikiFileName" =>
        (doxygen[call.node].refid # <<>> => call.value # <<>>)

=============================================================================
